---- MODULE Spec2Model ----
(***************************************************************************)
(* Workflow execution engine of the Autonomous Workflow Agent:             *)
(*   app/workflows/engine.py       WorkflowEngine (retry executor, run)    *)
(*   app/workflows/state_store.py  StateStore (SQLite persistence)         *)
(*   app/api/routes.py             stop_run (external stop operation)      *)
(* The collaborators (fetch_emails, write_rows, build_report, save_report) *)
(* and SQLite are the environment: each call returns or raises.            *)
(***************************************************************************)
EXTENDS Integers, Sequences, FiniteSets, TLC

(* ------------------------------ bounds --------------------------------- *)
\* largest configured workflow_max_retries explored (smallest is -1)
MaxRetriesBound == 1
\* largest number of items one fetch returns
MaxEmails == 1

(* ----------------------------- vocabulary ------------------------------ *)
RunIds == {"r1"}

\* Python None, for string-valued and for integer-valued fields
None == "None"
NoValue == -1

\* models.py WorkflowStatus / StepStatus values
WorkflowStatus == {"pending", "running", "completed", "failed"}
StepStatus == {"pending", "running", "completed", "failed", "skipped"}

\* the step names execute_workflow passes to the retry executor, in order
StepNames == <<"fetch_emails", "write_to_sheets", "generate_report">>
Steps == {StepNames[i] : i \in 1..Len(StepNames)}

\* configured values of Settings.workflow_max_retries (an unvalidated int)
MaxRetriesValues == -1..MaxRetriesBound

\* str(e) of the exceptions a step operation raises
StepErrors == {"e1", "e2"}
\* str(e) of the exception sqlite3.connect raises in a store operation
DbError == "db error"
\* str(e) of the exception save_report raises (write_text, mkdir)
IoError == "io error"

\* a store operation commits ("ok"), catches an error and returns False
\* ("fail"), or raises from _get_connection, which is outside its try ("raise")
StoreOutcomes == {"ok", "fail", "raise"}

VARIABLES
    max_retries,      \* settings.workflow_max_retries
    workflow_runs,    \* table workflow_runs: run_id -> row
    step_logs,        \* table step_logs, in id order
    pc,               \* position of execute_workflow, per run
    step,             \* step name the retry executor is running, per run
    attempt,          \* loop variable of _execute_step_with_retry
    run,              \* the in-memory WorkflowRun of execute_workflow
    generate_report,  \* argument of execute_workflow
    result,           \* (success, value, error) last returned by the executor
    emails,           \* local `emails` of execute_workflow (number of items)
    exc,              \* str(e) of the exception caught at engine.py:205
    hist,             \* the current executor invocation: what step_func did,
                      \* how the executor ended
    invoked,          \* the steps whose step operation has been called, per run
    outcome,          \* how the executor invocation of each step ended, per run
    stop_response,    \* HTTP status of the last stop_run request
    stop_applied,     \* a stop_run request has updated the run's row
    sheet,            \* column A of the spreadsheet, row 1 first
    writers,          \* the write_rows call of each writing run
    list_call,        \* the list_runs call in progress or last made
    get_call,         \* the get_run call in progress or last made
    report_call,      \* a build_report call: its emails and its urgency_stats
    cache_loop,       \* the classification caching loop of execute_workflow
    openai_client     \* the global OpenAIClientWrapper and the run using it

\* the variables of execute_workflow and stop_run other than the two tables
runVars == <<max_retries, pc, step, attempt, run, generate_report, result, emails,
             exc, hist, invoked, outcome, stop_response, stop_applied>>

\* the spreadsheet and the store queries, which execute_workflow as modelled
\* in the engine section does not touch
auxVars == <<sheet, writers, list_call, get_call, report_call, cache_loop,
            openai_client>>

\* a build_report call and the caching loop, each modelled on its own
taskVars == <<report_call, cache_loop, openai_client>>

vars == <<max_retries, workflow_runs, step_logs, pc, step, attempt, run,
          generate_report, result, emails, exc, hist, invoked, outcome,
          stop_response, stop_applied, sheet, writers, list_call, get_call,
          report_call, cache_loop, openai_client>>

(* ------------------------------ records -------------------------------- *)
\* WorkflowRun as constructed at engine.py:112-116
NewRun ==
    [status |-> "running", completed_at |-> None, error_message |-> None,
     emails_processed |-> 0, report_path |-> None]

NoRun ==
    [status |-> None, completed_at |-> None, error_message |-> None,
     emails_processed |-> 0, report_path |-> None]

\* StepLog row as inserted by add_step_log
StepLog(r, name, status, retry, err) ==
    [run_id |-> r, step_name |-> name, status |-> status,
     retry_count |-> retry, error_message |-> err]

\* the tuple _execute_step_with_retry returns
Result(success, value, error) ==
    [success |-> success, value |-> value, error |-> error]

NoResult == Result(FALSE, NoValue, None)

\* record of one executor invocation: calls of step_func, index of the first
\* attempt on which it returned, value it last returned, number of raises,
\* message of its last exception, how the executor ended and what it returned
NoHist ==
    [calls |-> 0, firstOk |-> NoValue, okVal |-> NoValue, raises |-> 0,
     apiErrors |-> 0, lastErr |-> None, sleeps |-> 0, fin |-> "no",
     ret |-> NoResult]

\* how an executor invocation ended, from its record: "ok" (it returned
\* success), "empty" (success with no item), "exhausted" (step_func raised on
\* every attempt), "failed" (any other failure)
StageOutcome(h) ==
    CASE h.fin = "returned" /\ h.ret.success /\ h.ret.value = 0 -> "empty"
      [] h.fin = "returned" /\ h.ret.success /\ h.ret.value # 0 -> "ok"
      [] ~(h.fin = "returned" /\ h.ret.success) /\ h.calls > 0 /\ h.raises = h.calls
           -> "exhausted"
      [] OTHER -> "failed"

(* ---------------------------- state store ------------------------------ *)
\* StateStore.create_run: INSERT of one row keyed by run_id
CreateRun(tbl, r, rec, o) ==
    IF o = "ok" /\ r \notin DOMAIN tbl THEN (r :> rec) @@ tbl ELSE tbl

\* update_run without its WHERE clause: every row gets the given fields
UpdateRunAllRows(tbl, r, fields, o) ==
    IF o = "ok"
    THEN [id \in DOMAIN tbl |->
             [f \in DOMAIN tbl[id] |->
                 IF f \in DOMAIN fields THEN fields[f] ELSE tbl[id][f]]]
    ELSE tbl

\* StateStore.update_run: UPDATE ... SET <the given fields> WHERE run_id = r
\* (no row matched: nothing changes, and the call still returns True)
UpdateRun(tbl, r, fields, o) ==
    IF o = "ok" /\ r \in DOMAIN tbl
    THEN [tbl EXCEPT ![r] =
             [f \in DOMAIN tbl[r] |->
                 IF f \in DOMAIN fields THEN fields[f] ELSE tbl[r][f]]]
    ELSE tbl

\* add_step_log that replaces the table by the new row instead of inserting it
AddStepLogOverwriting(logs, log, o) ==
    IF o = "ok" THEN <<log>> ELSE logs

\* StateStore.add_step_log: INSERT of one row at the end of step_logs
AddStepLog(logs, log, o) ==
    IF o = "ok" THEN Append(logs, log) ELSE logs

\* StateStore.get_run: the row, found or not
GetRun(tbl, r, o) == o = "ok" /\ r \in DOMAIN tbl

(* --------------------------- retry executor ---------------------------- *)
\* engine.py:59  for attempt in range(max_retries + 1)
InLoop(a, maxr) == a < maxr + 1

\* the retry test with the final attempt counted as retryable
ShouldRetryInclusive(a, maxr) == a < maxr + 1

\* engine.py:82  if attempt < max_retries
ShouldRetry(a, maxr) == a < maxr

\* engine.py:64  retry_count=attempt
RetryCount(a) == a

\* what the step operation of each step returns: the number of items fetched,
\* the number of rows written, a ReportData object
StepValues(r) ==
    CASE step[r] = "fetch_emails" -> 0..MaxEmails
      [] step[r] = "write_to_sheets" -> 0..emails[r]
      [] OTHER -> {1}

\* how the external call of a step operation ends: it answers, or it fails
\* with a network/API error (googleapiclient HttpError)
ApiOutcomes == {"ok", "http_error"}

\* what the step operation returns when its external call ends with x:
\* fetch_emails catches the error and returns [] (gmail_reader.py:179-184),
\* write_rows catches it and returns 0 (sheets_writer.py:174-179)
CollaboratorValues(r, x) ==
    IF x = "ok" THEN StepValues(r)
    ELSE IF step[r] \in {"fetch_emails", "write_to_sheets"} THEN {0} ELSE {}

\* the executor invocation of run r ends with record h
Finished(r, h) ==
    /\ hist' = [hist EXCEPT ![r] = h]
    /\ outcome' = [outcome EXCEPT ![r][step[r]] = StageOutcome(h)]

\* engine.py:78-91, the except branch: msg is str(e), o the outcome of the
\* add_step_log call of line 89, h the record of this invocation so far
ExceptBranch(r, msg, o, h) ==
    IF ShouldRetry(attempt[r], max_retries)
    THEN /\ attempt' = [attempt EXCEPT ![r] = @ + 1]
         /\ hist' = [hist EXCEPT ![r] = [h EXCEPT !.sleeps = @ + 1]]
         /\ UNCHANGED <<step_logs, pc, result, exc, outcome>>
    ELSE /\ step_logs' = AddStepLog(step_logs,
                StepLog(r, step[r], "failed", RetryCount(attempt[r]), msg), o)
         /\ attempt' = attempt
         /\ IF o = "raise"
            THEN /\ pc' = [pc EXCEPT ![r] = "handler"]
                 /\ exc' = [exc EXCEPT ![r] = DbError]
                 /\ Finished(r, [h EXCEPT !.fin = "raised"])
                 /\ result' = result
            ELSE /\ pc' = [pc EXCEPT ![r] = "after"]
                 /\ result' = [result EXCEPT ![r] = Result(FALSE, NoValue, msg)]
                 /\ Finished(r, [h EXCEPT !.fin = "returned",
                                          !.ret = Result(FALSE, NoValue, msg)])
                 /\ exc' = exc

\* engine.py:67-76: step_func returns v (its external call ending with x), then
\* add_step_log (outcome o) inside the same try; o2 is the outcome of the
\* add_step_log of line 89
StepReturns(r) ==
    /\ pc[r] = "exec"
    /\ InLoop(attempt[r], max_retries)
    /\ \E x \in ApiOutcomes, o \in StoreOutcomes, o2 \in StoreOutcomes :
       \E v \in CollaboratorValues(r, x) :
         LET h == [hist[r] EXCEPT
                      !.calls = @ + 1,
                      !.apiErrors = IF x = "http_error" THEN @ + 1 ELSE @,
                      !.firstOk = IF @ = NoValue THEN attempt[r] ELSE @,
                      !.okVal = v]
         IN  IF o = "raise"
             THEN ExceptBranch(r, DbError, o2, h)
             ELSE /\ o2 = "ok"
                  /\ step_logs' = AddStepLog(step_logs,
                         StepLog(r, step[r], "completed", RetryCount(attempt[r]), None), o)
                  /\ pc' = [pc EXCEPT ![r] = "after"]
                  /\ result' = [result EXCEPT ![r] = Result(TRUE, v, None)]
                  /\ Finished(r, [h EXCEPT !.fin = "returned",
                                           !.ret = Result(TRUE, v, None)])
                  /\ UNCHANGED <<attempt, exc>>
    /\ invoked' = [invoked EXCEPT ![r] = @ \cup {step[r]}]
    /\ UNCHANGED <<max_retries, workflow_runs, step, run, generate_report, emails,
                   stop_response, stop_applied>>
    /\ UNCHANGED auxVars

\* engine.py:67-69, 78-91: step_func raises e
StepRaises(r) ==
    /\ pc[r] = "exec"
    /\ InLoop(attempt[r], max_retries)
    /\ \E e \in StepErrors, o \in StoreOutcomes :
         ExceptBranch(r, e, o,
             [hist[r] EXCEPT !.calls = @ + 1, !.raises = @ + 1, !.lastErr = e])
    /\ invoked' = [invoked EXCEPT ![r] = @ \cup {step[r]}]
    /\ UNCHANGED <<max_retries, workflow_runs, step, run, generate_report, emails,
                   stop_response, stop_applied>>
    /\ UNCHANGED auxVars

\* engine.py:93: the loop ended without returning (it ran zero times)
ExecFallThrough(r) ==
    /\ pc[r] = "exec"
    /\ ~InLoop(attempt[r], max_retries)
    /\ pc' = [pc EXCEPT ![r] = "after"]
    /\ result' = [result EXCEPT ![r] = Result(FALSE, NoValue, "Max retries exceeded")]
    /\ Finished(r, [hist[r] EXCEPT
                       !.fin = "returned",
                       !.ret = Result(FALSE, NoValue, "Max retries exceeded")])
    /\ UNCHANGED <<max_retries, workflow_runs, step_logs, step, attempt, run,
                   generate_report, emails, exc, invoked, stop_response, stop_applied>>
    /\ UNCHANGED auxVars

(* --------------------------- workflow engine --------------------------- *)
\* the abort test without its `not emails` half
FetchAbortsOnFailureOnly(success, value) == ~success

\* engine.py:130  if not success or not emails
FetchAborts(success, value) == ~success \/ value = NoValue \/ value = 0

\* engine.py:132  error or "No emails fetched"
FetchError(error) == IF error # None THEN error ELSE "No emails fetched"

\* engine.py:134-139: the fields of the update on the fetch-failure path
FetchFailedFields(rn) ==
    [status |-> rn.status, error_message |-> rn.error_message,
     completed_at |-> rn.completed_at]

\* the terminal update without completed_at
CompletedFieldsWithoutTime(rn) ==
    [status |-> rn.status, emails_processed |-> rn.emails_processed,
     report_path |-> rn.report_path]

\* a terminal update that writes status failed for a completed run
CompletedFieldsFailed(rn) ==
    [status |-> "failed", completed_at |-> rn.completed_at,
     emails_processed |-> rn.emails_processed, report_path |-> rn.report_path]

\* engine.py:194-200: the fields of the terminal update of a completed run
CompletedFields(rn) ==
    [status |-> rn.status, completed_at |-> rn.completed_at,
     emails_processed |-> rn.emails_processed, report_path |-> rn.report_path]

\* engine.py:210-215: the fields of the update of the top-level handler
HandlerFields(rn) ==
    [status |-> rn.status, error_message |-> rn.error_message,
     completed_at |-> rn.completed_at]

\* a stop that also resets the item count of the run
StopFieldsResetting ==
    [status |-> "failed", error_message |-> "Manually stopped by user",
     completed_at |-> "t_stopped", emails_processed |-> 0]

\* the update of stop_run without its error_message
StopFieldsWithoutMessage ==
    [status |-> "failed", completed_at |-> "t_stopped"]

\* routes.py:130-135: the fields of the update of stop_run
StopFields ==
    [status |-> "failed", error_message |-> "Manually stopped by user",
     completed_at |-> "t_stopped"]

\* engine.py:110-119: build the run, create_run (outside the try), enter the
\* executor for fetch_emails. The return value of create_run is not read.
StartRun(r) ==
    /\ pc[r] = "idle"
    /\ \E g \in BOOLEAN, o \in StoreOutcomes :
         /\ generate_report' = [generate_report EXCEPT ![r] = g]
         /\ workflow_runs' = CreateRun(workflow_runs, r, NewRun, o)
         /\ pc' = [pc EXCEPT ![r] = IF o = "raise" THEN "raised" ELSE "exec"]
    /\ run' = [run EXCEPT ![r] = NewRun]
    /\ step' = [step EXCEPT ![r] = "fetch_emails"]
    /\ attempt' = [attempt EXCEPT ![r] = 0]
    /\ UNCHANGED <<max_retries, step_logs, result, emails, exc, hist, invoked,
                   outcome, stop_response, stop_applied>>
    /\ UNCHANGED auxVars

\* engine.py:130-160: abort on a failed or empty fetch, else record the count,
\* cache the classifications (errors swallowed) and enter the executor for
\* write_to_sheets
AfterFetch(r) ==
    /\ pc[r] = "after"
    /\ step[r] = "fetch_emails"
    /\ IF FetchAborts(result[r].success, result[r].value)
       THEN LET rn == [run[r] EXCEPT !.status = "failed",
                                     !.error_message = FetchError(result[r].error),
                                     !.completed_at = "t_fetch_failed"]
            IN  \E o \in StoreOutcomes :
                  /\ run' = [run EXCEPT ![r] = rn]
                  /\ workflow_runs' =
                         UpdateRun(workflow_runs, r, FetchFailedFields(rn), o)
                  /\ pc' = [pc EXCEPT ![r] = IF o = "raise" THEN "handler" ELSE "done"]
                  /\ exc' = [exc EXCEPT ![r] = IF o = "raise" THEN DbError ELSE @]
                  /\ UNCHANGED <<step, attempt, emails, hist>>
       ELSE /\ run' = [run EXCEPT ![r].emails_processed = result[r].value]
            /\ emails' = [emails EXCEPT ![r] = result[r].value]
            /\ pc' = [pc EXCEPT ![r] = "exec"]
            /\ step' = [step EXCEPT ![r] = "write_to_sheets"]
            /\ attempt' = [attempt EXCEPT ![r] = 0]
            /\ hist' = [hist EXCEPT ![r] = NoHist]
            /\ UNCHANGED <<workflow_runs, exc>>
    /\ UNCHANGED <<max_retries, step_logs, generate_report, result, invoked,
                   outcome, stop_response, stop_applied>>
    /\ UNCHANGED auxVars

\* engine.py:168-175: a failed write is only logged; then the report stage
\* if the caller asked for it
AfterWrite(r) ==
    /\ pc[r] = "after"
    /\ step[r] = "write_to_sheets"
    /\ IF generate_report[r]
       THEN /\ pc' = [pc EXCEPT ![r] = "exec"]
            /\ step' = [step EXCEPT ![r] = "generate_report"]
            /\ attempt' = [attempt EXCEPT ![r] = 0]
            /\ hist' = [hist EXCEPT ![r] = NoHist]
       ELSE /\ pc' = [pc EXCEPT ![r] = "finish"]
            /\ UNCHANGED <<step, attempt, hist>>
    /\ UNCHANGED <<max_retries, workflow_runs, step_logs, run, generate_report,
                   result, emails, exc, invoked, outcome, stop_response, stop_applied>>
    /\ UNCHANGED auxVars

\* engine.py:183-189: on success save_report (not under the executor: it
\* returns the path or raises) and record the path on the run
AfterReport(r) ==
    /\ pc[r] = "after"
    /\ step[r] = "generate_report"
    /\ IF result[r].success /\ result[r].value # NoValue
       THEN \E s \in {"ok", "raise"} :
              /\ run' = [run EXCEPT ![r].report_path =
                            IF s = "ok" THEN "report.md" ELSE @]
              /\ pc' = [pc EXCEPT ![r] = IF s = "ok" THEN "finish" ELSE "handler"]
              /\ exc' = [exc EXCEPT ![r] = IF s = "ok" THEN @ ELSE IoError]
       ELSE /\ pc' = [pc EXCEPT ![r] = "finish"]
            /\ UNCHANGED <<run, exc>>
    /\ UNCHANGED <<max_retries, workflow_runs, step_logs, step, attempt,
                   generate_report, result, emails, hist, invoked, outcome,
                   stop_response, stop_applied>>
    /\ UNCHANGED auxVars

\* engine.py:191-203: mark the run completed and persist it
Finish(r) ==
    /\ pc[r] = "finish"
    /\ LET rn == [run[r] EXCEPT !.status = "completed",
                                !.completed_at = "t_completed"]
       IN  \E o \in StoreOutcomes :
             /\ run' = [run EXCEPT ![r] = rn]
             /\ workflow_runs' = UpdateRun(workflow_runs, r, CompletedFields(rn), o)
             /\ pc' = [pc EXCEPT ![r] = IF o = "raise" THEN "handler" ELSE "done"]
             /\ exc' = [exc EXCEPT ![r] = IF o = "raise" THEN DbError ELSE @]
    /\ UNCHANGED <<max_retries, step_logs, step, attempt, generate_report, result,
                   emails, hist, invoked, outcome, stop_response, stop_applied>>
    /\ UNCHANGED auxVars

\* engine.py:205-216: the top-level except; an exception of its own update_run
\* leaves execute_workflow
Handler(r) ==
    /\ pc[r] = "handler"
    /\ LET rn == [run[r] EXCEPT !.status = "failed",
                                !.error_message = exc[r],
                                !.completed_at = "t_exception"]
       IN  \E o \in StoreOutcomes :
             /\ run' = [run EXCEPT ![r] = rn]
             /\ workflow_runs' = UpdateRun(workflow_runs, r, HandlerFields(rn), o)
             /\ pc' = [pc EXCEPT ![r] = IF o = "raise" THEN "raised" ELSE "done"]
    /\ UNCHANGED <<max_retries, step_logs, step, attempt, generate_report, result,
                   emails, exc, hist, invoked, outcome, stop_response, stop_applied>>
    /\ UNCHANGED auxVars

(* ------------------------------ stop_run ------------------------------- *)
\* routes.py:122-146: get_run (outcome g), 404 when it finds nothing, else
\* update_run (outcome u) whatever the status of the run is
StopRun(r) ==
    /\ \E g \in StoreOutcomes, u \in StoreOutcomes :
         IF g = "raise"
         THEN /\ stop_response' = [stop_response EXCEPT ![r] = "500"]
              /\ UNCHANGED <<workflow_runs, stop_applied>>
         ELSE IF ~GetRun(workflow_runs, r, g)
         THEN /\ stop_response' = [stop_response EXCEPT ![r] = "404"]
              /\ UNCHANGED <<workflow_runs, stop_applied>>
         ELSE /\ workflow_runs' = UpdateRun(workflow_runs, r, StopFields, u)
              /\ stop_response' = [stop_response EXCEPT ![r] =
                                      IF u = "ok" THEN "200" ELSE "500"]
              /\ stop_applied' = [stop_applied EXCEPT ![r] = @ \/ u = "ok"]
    /\ UNCHANGED <<max_retries, step_logs, pc, step, attempt, run, generate_report,
                   result, emails, exc, hist, invoked, outcome>>
    /\ UNCHANGED auxVars

(* ----------------------- Google Sheets writer -------------------------- *)
\* the runs whose write stage works on the shared spreadsheet
Writers == {"w1", "w2"}

\* Gmail message ids
EmailIds == {"m1", "m2"}

\* the rows argument of write_rows, by email_id: one row per fetched email
RowLists == {<<>>, <<"m1">>, <<"m2">>, <<"m1", "m2">>}

\* how a Sheets API call ends: it answers, it raises HttpError, it raises
\* another exception
SheetOutcomes == {"ok", "http_error", "raise"}

\* sheets_writer.py:84  the first cell of the header row
Header == "Email ID"

\* a write_rows call not made yet; appended, after and read_failed record what
\* the call did: the rows it appended, the calls that had ended when it
\* began, whether its read of column A failed
NoCall ==
    [pc |-> "idle", rows |-> <<>>, existing_ids |-> {}, new_rows |-> <<>>,
     updated_rows |-> NoValue, appended |-> <<>>, after |-> {},
     read_failed |-> FALSE]

Ids(seq) == {seq[i] : i \in 1..Len(seq)}

\* sheets_writer.py:49-51  {row[0] for row in values[1:] if row}
ExistingEmailIds(values) ==
    IF values = <<>> THEN {} ELSE Ids(Tail(values))

\* sheets_writer.py:129  [row for row in rows if row.email_id not in existing_ids]
NewRows(rows, existing_ids) ==
    SelectSeq(rows, LAMBDA id : id \notin existing_ids)

\* write_rows returns n
Returns(w, n) ==
    [writers[w] EXCEPT !.pc = "done", !.updated_rows = n]

\* sheets_writer.py:112-118: service check and empty rows, both returning 0
WriteRowsBegin(w) ==
    /\ writers[w].pc = "idle"
    /\ \E rows \in RowLists, service \in BOOLEAN :
         LET c == [writers[w] EXCEPT
                      !.rows = rows,
                      !.after = {v \in Writers : writers[v].pc \in {"done", "raised"}}]
         IN  writers' = [writers EXCEPT ![w] =
                 IF ~service \/ rows = <<>>
                 THEN [c EXCEPT !.pc = "done", !.updated_rows = 0]
                 ELSE [c EXCEPT !.pc = "headers"]]
    /\ UNCHANGED <<sheet, list_call, get_call, workflow_runs, step_logs, runVars, taskVars>>

\* sheets_writer.py:59-99, 121-123: _ensure_headers reads A1:I1 and writes the
\* header row when it is empty; HttpError makes write_rows return 0, any
\* other exception leaves write_rows
EnsureHeaders(w) ==
    /\ writers[w].pc = "headers"
    /\ \E o \in SheetOutcomes :
         CASE o = "ok" ->
                /\ sheet' = IF sheet = <<>> THEN <<Header>> ELSE sheet
                /\ writers' = [writers EXCEPT ![w].pc = "read"]
           [] o = "http_error" ->
                /\ writers' = [writers EXCEPT ![w] = Returns(w, 0)]
                /\ sheet' = sheet
           [] o = "raise" ->
                /\ writers' = [writers EXCEPT ![w].pc = "raised"]
                /\ sheet' = sheet
    /\ UNCHANGED <<list_call, get_call, workflow_runs, step_logs, runVars, taskVars>>

\* sheets_writer.py:30-57, 125-133: _get_existing_email_ids reads column A
\* (HttpError: the empty set), then the rows are filtered; no new row: return 0
GetExistingEmailIds(w) ==
    /\ writers[w].pc = "read"
    /\ \E o \in SheetOutcomes :
         IF o = "raise"
         THEN writers' = [writers EXCEPT ![w].pc = "raised"]
         ELSE LET ids == IF o = "ok" THEN ExistingEmailIds(sheet) ELSE {}
                  new == NewRows(writers[w].rows, ids)
                  c == [writers[w] EXCEPT !.existing_ids = ids, !.new_rows = new,
                                          !.read_failed = (o = "http_error")]
              IN  writers' = [writers EXCEPT ![w] =
                      IF new = <<>>
                      THEN [c EXCEPT !.pc = "done", !.updated_rows = 0]
                      ELSE [c EXCEPT !.pc = "append"]]
    /\ UNCHANGED <<sheet, list_call, get_call, workflow_runs, step_logs, runVars, taskVars>>

\* sheets_writer.py:137-179: values().append of the new rows after the last
\* row; it returns updatedRows, and 0 on HttpError or any other exception
AppendRows(w) ==
    /\ writers[w].pc = "append"
    /\ \E o \in SheetOutcomes :
         IF o = "ok"
         THEN /\ sheet' = sheet \o writers[w].new_rows
              /\ writers' = [writers EXCEPT ![w] =
                     [writers[w] EXCEPT !.pc = "done",
                                        !.updated_rows = Len(writers[w].new_rows),
                                        !.appended = writers[w].new_rows]]
         ELSE /\ writers' = [writers EXCEPT ![w] = Returns(w, 0)]
              /\ sheet' = sheet
    /\ UNCHANGED <<list_call, get_call, workflow_runs, step_logs, runVars, taskVars>>

(* --------------------------- store queries ----------------------------- *)

\* most step_logs rows the store queries are checked with
MaxStepLogs == 3

\* largest limit list_runs is called with
MaxLimit == 2

\* the run ids of the runs the store holds: a run id is a fresh uuid4 string
\* (engine.py:111), and the i-th run that is started is named RunOrder[i]
RunOrder == <<"r1", "r2", "r3">>

StoredIds == {RunOrder[i] : i \in 1..Len(RunOrder)}

\* routes.py:67-70  limit: int = 50, not validated
ListLimits == -1..MaxLimit

\* routes.py:70  status: Optional[WorkflowStatus] = None
ListStatuses == {None, "running", "completed"}

\* the row create_run inserts for a run started at time t (engine.py:112-116,
\* started_at=datetime.now())
StoredRun(t) == [started_at |-> t] @@ NewRun

\* the updates made to a row: the terminal update of a run that fetched one
\* email (engine.py:194-200) and the update of stop_run (routes.py:130-135)
CompletedUpdate ==
    CompletedFields([NewRun EXCEPT !.status = "completed",
                                   !.completed_at = "t_completed",
                                   !.emails_processed = 1])

\* state_store.py:195-198  SELECT * FROM step_logs with no WHERE clause
StepRowsOfAllRuns(logs, id) == logs

\* state_store.py:195-198  SELECT * FROM step_logs WHERE run_id = ? ORDER BY id
StepRows(logs, id) == SelectSeq(logs, LAMBDA l : l.run_id = id)

\* state_store.py:201-211  StepLog(step_name=..., status=..., ...) of one row
ToStepLog(l) ==
    [step_name |-> l.step_name, status |-> l.status,
     error_message |-> l.error_message, retry_count |-> l.retry_count]

\* state_store.py:213-222  WorkflowRun(run_id=..., status=..., steps=steps, ...)
ToWorkflowRun(id, row, rows) ==
    [run_id |-> id, status |-> row.status, started_at |-> row.started_at,
     completed_at |-> row.completed_at, error_message |-> row.error_message,
     emails_processed |-> row.emails_processed, report_path |-> row.report_path,
     steps |-> [i \in 1..Len(rows) |-> ToStepLog(rows[i])]]

\* the value of a call that has no WorkflowRun to show
NoWorkflowRun == ToWorkflowRun(None, StoredRun(NoValue), <<>>)

\* state_store.py:245-250  WHERE status = ?, applied only when a status is given
Matching(tbl, status) ==
    {id \in DOMAIN tbl : status = None \/ tbl[id].status = status}

\* state_store.py:246, 252  ORDER BY started_at DESC
RECURSIVE OrderByStartedAtDesc(_, _)
OrderByStartedAtDesc(tbl, ids) ==
    IF ids = {} THEN <<>>
    ELSE LET first == CHOOSE id \in ids :
                          \A other \in ids : tbl[other].started_at <= tbl[id].started_at
         IN  <<first>> \o OrderByStartedAtDesc(tbl, ids \ {first})

\* state_store.py:247, 253  LIMIT ?: SQLite puts no upper bound on the number
\* of rows when the limit is negative
Limit(seq, n) ==
    IF n < 0 \/ n >= Len(seq) THEN seq ELSE SubSeq(seq, 1, n)

\* state_store.py:243-256  the run ids the SELECT of list_runs returns
SelectRunIds(tbl, status, limit) ==
    Limit(OrderByStartedAtDesc(tbl, Matching(tbl, status)), limit)

\* no list_runs call made yet; selected records the ids the SELECT returned,
\* failed whether a query of the call failed
NoList ==
    [pc |-> "idle", limit |-> 0, status |-> None, selected |-> <<>>, ids |-> <<>>,
     row |-> StoredRun(NoValue), runs |-> <<>>, failed |-> FALSE]

\* no get_run call made yet; existed records whether the id had a row when
\* the call began
NoGet ==
    [pc |-> "idle", run_id |-> None, existed |-> FALSE, row |-> StoredRun(NoValue),
     found |-> FALSE, run |-> NoWorkflowRun]

\* a query is between two of its statements
Querying == list_call.pc \in {"row", "steps"} \/ get_call.pc = "steps"

\* a query has returned (or raised) and its caller holds the result
Returned == list_call.pc \in {"done", "raised"} \/ get_call.pc \in {"done", "raised"}

\* routes.py:83-84, 103-108: the caller of the query takes the result; this is
\* placed before the next call on the store, which does not depend on it
ResultRead ==
    /\ Returned
    /\ list_call' = NoList
    /\ get_call' = NoGet
    /\ UNCHANGED <<workflow_runs, step_logs, sheet, writers, runVars, taskVars>>

\* engine.py:111-118: a new run is created; started_at grows with each run
StoreCreateRun(id) ==
    /\ ~Returned
    /\ Cardinality(DOMAIN workflow_runs) < Len(RunOrder)
    /\ id = RunOrder[Cardinality(DOMAIN workflow_runs) + 1]
    /\ \E o \in StoreOutcomes :
         workflow_runs' = CreateRun(workflow_runs, id,
                              StoredRun(Cardinality(DOMAIN workflow_runs) + 1), o)
    /\ UNCHANGED <<step_logs, list_call, get_call, sheet, writers, runVars, taskVars>>

\* engine.py:194-200: the terminal update of a run, made once
StoreCompleteRun(id) ==
    /\ ~Returned
    /\ id \in DOMAIN workflow_runs
    /\ workflow_runs[id].emails_processed = 0
    /\ \E o \in StoreOutcomes :
         workflow_runs' = UpdateRun(workflow_runs, id, CompletedUpdate, o)
    /\ UNCHANGED <<step_logs, list_call, get_call, sheet, writers, runVars, taskVars>>

\* routes.py:130-135: the update of a stop request
StoreStopRun(id) ==
    /\ ~Returned
    /\ id \in DOMAIN workflow_runs
    /\ \E o \in StoreOutcomes :
         workflow_runs' = UpdateRun(workflow_runs, id, StopFields, o)
    /\ UNCHANGED <<step_logs, list_call, get_call, sheet, writers, runVars, taskVars>>

\* engine.py:73: the StepLog of the next step of run id is inserted
StoreAddStepLog(id) ==
    /\ ~Returned
    /\ Len(step_logs) < MaxStepLogs
    /\ Len(StepRows(step_logs, id)) < Len(StepNames)
    /\ \E o \in StoreOutcomes :
         step_logs' = AddStepLog(step_logs,
             StepLog(id, StepNames[Len(StepRows(step_logs, id)) + 1], "completed", 0, None), o)
    /\ UNCHANGED <<workflow_runs, list_call, get_call, sheet, writers, runVars, taskVars>>

\* state_store.py:184-193, 223-227: get_run opens the connection (o = "raise":
\* it fails) and selects the row; no row or a failed query: None
GetRunBegin(id) ==
    /\ ~Querying /\ ~Returned
    /\ \E o \in StoreOutcomes :
         LET c == [NoGet EXCEPT !.run_id = id, !.existed = (id \in DOMAIN workflow_runs)]
         IN  get_call' =
               CASE o = "raise" -> [c EXCEPT !.pc = "raised"]
                 [] o = "fail" -> [c EXCEPT !.pc = "done"]
                 [] o = "ok" ->
                      IF id \in DOMAIN workflow_runs
                      THEN [c EXCEPT !.pc = "steps", !.row = workflow_runs[id]]
                      ELSE [c EXCEPT !.pc = "done"]
    /\ UNCHANGED <<workflow_runs, step_logs, list_call, sheet, writers, runVars, taskVars>>

\* state_store.py:195-227: get_run selects the step logs of the run and
\* builds the WorkflowRun; a failed query: None
GetRunSteps ==
    /\ get_call.pc = "steps"
    /\ \E o \in {"ok", "fail"} :
         get_call' =
             IF o = "ok"
             THEN [get_call EXCEPT
                      !.pc = "done", !.found = TRUE,
                      !.run = ToWorkflowRun(get_call.run_id, get_call.row,
                                            StepRows(step_logs, get_call.run_id))]
             ELSE [get_call EXCEPT !.pc = "done"]
    /\ UNCHANGED <<workflow_runs, step_logs, list_call, sheet, writers, runVars, taskVars>>

\* list_runs goes on to the next selected id, or returns
NextId(c) ==
    [c EXCEPT !.ids = Tail(@),
              !.pc = IF Tail(c.ids) = <<>> THEN "done" ELSE "row"]

\* state_store.py:239-256, 265-270: list_runs opens the connection and
\* selects the run ids; a failed query: []
ListRunsBegin ==
    /\ ~Querying /\ ~Returned
    /\ \E limit \in ListLimits, status \in ListStatuses, o \in StoreOutcomes :
         LET c == [NoList EXCEPT !.limit = limit, !.status = status]
             ids == SelectRunIds(workflow_runs, status, limit)
         IN  list_call' =
               CASE o = "raise" -> [c EXCEPT !.pc = "raised", !.failed = TRUE]
                 [] o = "fail" -> [c EXCEPT !.pc = "done", !.failed = TRUE]
                 [] o = "ok" ->
                      [c EXCEPT !.selected = ids, !.ids = ids,
                                !.pc = IF ids = <<>> THEN "done" ELSE "row"]
    /\ UNCHANGED <<workflow_runs, step_logs, get_call, sheet, writers, runVars, taskVars>>

\* state_store.py:258-261 with 184-193: get_run of the next id selects its
\* row; get_run raising ends list_runs with [] (state_store.py:265-267),
\* get_run returning None skips the id
ListGetRow ==
    /\ list_call.pc = "row"
    /\ \E o \in StoreOutcomes :
         list_call' =
           CASE o = "raise" ->
                  [list_call EXCEPT !.pc = "done", !.runs = <<>>, !.failed = TRUE]
             [] o = "fail" -> [NextId(list_call) EXCEPT !.failed = TRUE]
             [] o = "ok" ->
                  [list_call EXCEPT !.pc = "steps",
                                    !.row = workflow_runs[Head(list_call.ids)]]
    /\ UNCHANGED <<workflow_runs, step_logs, get_call, sheet, writers, runVars, taskVars>>

\* state_store.py:258-263 with 195-222: get_run of the id selects its step
\* logs and the WorkflowRun is appended to runs; a failed query skips the id
ListGetSteps ==
    /\ list_call.pc = "steps"
    /\ \E o \in {"ok", "fail"} :
         list_call' =
             IF o = "ok"
             THEN [NextId(list_call) EXCEPT
                      !.runs = Append(@, ToWorkflowRun(Head(list_call.ids), list_call.row,
                                          StepRows(step_logs, Head(list_call.ids))))]
             ELSE [NextId(list_call) EXCEPT !.failed = TRUE]
    /\ UNCHANGED <<workflow_runs, step_logs, get_call, sheet, writers, runVars, taskVars>>

(* ---------------------------- build_report ----------------------------- *)
\* most emails build_report is called with
MaxReportEmails == 3

\* urgency_score is a float in [0, 1] (models.py:54); the model counts it in
\* hundredths
ImportantThreshold == 70
NeededReviewThreshold == 40
UrgencyScores == {0, 39, 40, 50, 69, 70, 100}

\* EmailData.sentiment is None (models.py:69): analysis disabled or failed
NoSentiment == NoValue

\* the emails argument, given by the urgency score of each item
ReportEmails ==
    UNION {[1..n -> UrgencyScores \cup {NoSentiment}] : n \in 0..MaxReportEmails}

Buckets == {"Important", "Needed Review", "Take Your Time"}

\* report_builder.py:150-154
ZeroStats == [b \in Buckets |-> 0]

\* the bucket test with strict comparisons
BucketStrict(score) ==
    IF score > ImportantThreshold THEN "Important"
    ELSE IF score > NeededReviewThreshold THEN "Needed Review"
    ELSE "Take Your Time"

\* report_builder.py:160-166
Bucket(score) ==
    IF score >= ImportantThreshold THEN "Important"
    ELSE IF score >= NeededReviewThreshold THEN "Needed Review"
    ELSE "Take Your Time"

\* report_builder.py:157-166: the loop over emails, from the item at index i
RECURSIVE UrgencyStats(_, _, _)
UrgencyStats(es, i, stats) ==
    IF i > Len(es) THEN stats
    ELSE UrgencyStats(es, i + 1,
             IF es[i] # NoSentiment
             THEN [stats EXCEPT ![Bucket(es[i])] = @ + 1]
             ELSE stats)

NoReportCall == [emails |-> <<>>, urgency_stats |-> ZeroStats, done |-> FALSE]

ReportCalls == {[NoReportCall EXCEPT !.emails = es] : es \in ReportEmails}

\* report_builder.py:133-186: build_report as far as urgency_stats
BuildReport ==
    /\ ~report_call.done
    /\ report_call' = [report_call EXCEPT
                          !.urgency_stats = UrgencyStats(report_call.emails, 1, ZeroStats),
                          !.done = TRUE]
    /\ UNCHANGED <<workflow_runs, step_logs, sheet, writers, list_call, get_call,
                   cache_loop, openai_client, runVars>>

(* ----------------------- classification caching ------------------------ *)
\* most emails the caching loop is run over
MaxCacheEmails == 3

\* an item carries both a classification and a sentiment result
\* ("classified") or lacks one of them ("bare")
ItemKinds == {"classified", "bare"}

\* the non-empty emails list of engine.py:142
CacheEmails == UNION {[1..n -> ItemKinds] : n \in 1..MaxCacheEmails}

\* cache_classification (analytics.py:171-193) has no try: it returns or raises
CacheOutcomes == {"ok", "raise"}

\* status is run.status, i the index of the item the loop is at, cached the
\* items whose classification was stored, failed those whose call raised
NoCacheLoop ==
    [pc |-> "idle", emails |-> <<>>, i |-> 1, cached |-> {}, failed |-> {},
     status |-> "running"]

\* the except branch re-raising instead of logging
CacheFailureAborts(c) ==
    [c EXCEPT !.failed = @ \cup {c.i}, !.pc = "handler", !.status = "failed"]

\* engine.py:156-157  except Exception: logger.warning(...)
CacheFailure(c) ==
    [c EXCEPT !.failed = @ \cup {c.i}, !.i = @ + 1]

CacheUnchanged ==
    UNCHANGED <<workflow_runs, step_logs, sheet, writers, list_call, get_call,
                report_call, openai_client, runVars>>

\* engine.py:142-146: the fetch stage delivered emails, the loop starts
CacheLoopBegin ==
    /\ cache_loop.pc = "idle"
    /\ \E es \in CacheEmails :
         cache_loop' = [cache_loop EXCEPT !.pc = "loop", !.emails = es]
    /\ CacheUnchanged

\* engine.py:147: the item lacks a classification or a sentiment result
CacheSkip ==
    /\ cache_loop.pc = "loop"
    /\ cache_loop.i <= Len(cache_loop.emails)
    /\ cache_loop.emails[cache_loop.i] = "bare"
    /\ cache_loop' = [cache_loop EXCEPT !.i = @ + 1]
    /\ CacheUnchanged

\* engine.py:147-157: cache_classification is called for the item
CacheClassification ==
    /\ cache_loop.pc = "loop"
    /\ cache_loop.i <= Len(cache_loop.emails)
    /\ cache_loop.emails[cache_loop.i] = "classified"
    /\ \E o \in CacheOutcomes :
         cache_loop' =
             IF o = "ok"
             THEN [cache_loop EXCEPT !.cached = @ \cup {cache_loop.i}, !.i = @ + 1]
             ELSE CacheFailure(cache_loop)
    /\ CacheUnchanged

\* engine.py:146, 159-166: the loop is over, the write stage starts
CacheLoopEnd ==
    /\ cache_loop.pc = "loop"
    /\ cache_loop.i > Len(cache_loop.emails)
    /\ cache_loop' = [cache_loop EXCEPT !.pc = "write"]
    /\ CacheUnchanged

(* ---------------------------- OpenAI client ---------------------------- *)
\* settings.openai_max_calls_per_run as the wrapper is checked with
MaxCalls == 2

\* most requests followed between two resets, and most runs that share the
\* client
MaxSent == 4
MaxRuns == 2

\* a request to the API returns a response or raises (OpenAIError or other)
RequestOutcomes == {"ok", "error"}

\* openai_client.py:24-32, 201-210: the global wrapper as first created.
\* call_count is the wrapper's field; sent counts the requests made to the API
\* since the last reset; last is how the last generate_completion ended;
\* stage, runs and first_count follow the workflow run that uses the client:
\* first_count is call_count at the run's first generate_completion
NewClient ==
    [call_count |-> 0, sent |-> 0, last |-> None, stage |-> "idle", runs |-> 0,
     generate_report |-> FALSE, first_count |-> NoValue]

\* openai_client.py:72-142: the limit test of 73-79, then the request; the
\* counter advances at line 104, after create() returned
GenerateCompletion(c, o) ==
    LET d == [c EXCEPT !.first_count = IF @ = NoValue THEN c.call_count ELSE @]
    IN  IF d.call_count >= MaxCalls
        THEN [d EXCEPT !.last = "Rate limit exceeded"]
        ELSE [d EXCEPT !.sent = @ + 1,
                       !.call_count = IF o = "ok" THEN @ + 1 ELSE @,
                       !.last = o]

\* openai_client.py:34-37
ResetCallCount(c) == [c EXCEPT !.call_count = 0, !.sent = 0]

ClientUnchanged ==
    UNCHANGED <<workflow_runs, step_logs, sheet, writers, list_call, get_call,
                report_call, cache_loop, runVars>>

\* engine.py:95-128: a run starts its fetch stage, with either generate_report
RunBegins ==
    /\ openai_client.stage = "idle"
    /\ openai_client.runs < MaxRuns
    /\ \E g \in BOOLEAN :
         openai_client' = [openai_client EXCEPT
                              !.stage = "fetch", !.runs = @ + 1,
                              !.generate_report = g, !.first_count = NoValue]
    /\ ClientUnchanged

\* gmail_reader.py:110-124: classification or sentiment analysis of a fetched
\* email calls generate_completion (email_classifier.py:54,
\* sentiment_analyzer.py:57)
Classify ==
    /\ openai_client.stage = "fetch"
    /\ openai_client.sent < MaxSent
    /\ \E o \in RequestOutcomes :
         openai_client' = GenerateCompletion(openai_client, o)
    /\ ClientUnchanged

\* engine.py:174-181, report_builder.py:144-147: the fetch stage is over;
\* with generate_report build_report starts by resetting the counter
FetchEnds ==
    /\ openai_client.stage = "fetch"
    /\ openai_client' =
           IF openai_client.generate_report
           THEN [ResetCallCount(openai_client) EXCEPT !.stage = "report"]
           ELSE [openai_client EXCEPT !.stage = "idle"]
    /\ ClientUnchanged

\* report_builder.py:51, 76: summarize_text and extract_insights call
\* generate_completion
ReportCompletion ==
    /\ openai_client.stage = "report"
    /\ openai_client.sent < MaxSent
    /\ \E o \in RequestOutcomes :
         openai_client' = GenerateCompletion(openai_client, o)
    /\ ClientUnchanged

\* report_builder.py:186: build_report returns, the run ends
ReportEnds ==
    /\ openai_client.stage = "report"
    /\ openai_client' = [openai_client EXCEPT !.stage = "idle"]
    /\ ClientUnchanged

(* --------------------------- specification ----------------------------- *)
Init ==
    /\ max_retries \in MaxRetriesValues
    /\ workflow_runs = [r \in {} |-> NoRun]
    /\ step_logs = <<>>
    /\ pc = [r \in RunIds |-> "idle"]
    /\ step = [r \in RunIds |-> "fetch_emails"]
    /\ attempt = [r \in RunIds |-> 0]
    /\ run = [r \in RunIds |-> NoRun]
    /\ generate_report = [r \in RunIds |-> TRUE]
    /\ result = [r \in RunIds |-> NoResult]
    /\ emails = [r \in RunIds |-> NoValue]
    /\ exc = [r \in RunIds |-> None]
    /\ hist = [r \in RunIds |-> NoHist]
    /\ invoked = [r \in RunIds |-> {}]
    /\ outcome = [r \in RunIds |-> [s \in Steps |-> None]]
    /\ stop_response = [r \in RunIds |-> None]
    /\ stop_applied = [r \in RunIds |-> FALSE]
    /\ sheet = <<>>
    /\ writers = [w \in Writers |-> NoCall]
    /\ list_call = NoList
    /\ get_call = NoGet
    /\ cache_loop = NoCacheLoop
    /\ openai_client = NewClient
    /\ report_call \in ReportCalls

Next ==
    \E r \in RunIds :
        \/ StartRun(r)
        \/ StepReturns(r)
        \/ StepRaises(r)
        \/ ExecFallThrough(r)
        \/ AfterFetch(r)
        \/ AfterWrite(r)
        \/ AfterReport(r)
        \/ Finish(r)
        \/ Handler(r)
        \/ StopRun(r)

\* execute_workflow with no build_report call modelled on its own
InitEngine == Init /\ report_call = NoReportCall

Spec == InitEngine /\ [][Next]_vars

\* the steps of execute_workflow for run r
EngineStep(r) ==
    \/ StartRun(r) \/ StepReturns(r) \/ StepRaises(r) \/ ExecFallThrough(r)
    \/ AfterFetch(r) \/ AfterWrite(r) \/ AfterReport(r) \/ Finish(r) \/ Handler(r)

\* execute_workflow runs in its own thread and each call it makes returns or
\* raises, so a run that can take a step takes one; stop requests may or may
\* not come
FairSpec == Spec /\ \A r \in RunIds : WF_vars(EngineStep(r))

\* the write stages of the writing runs on the shared spreadsheet
NextSheet ==
    \E w \in Writers :
        \/ WriteRowsBegin(w)
        \/ EnsureHeaders(w)
        \/ GetExistingEmailIds(w)
        \/ AppendRows(w)

\* the engine is not running; its retry setting is fixed
InitQuiet == Init /\ max_retries = 0 /\ report_call = NoReportCall

SpecSheet == InitQuiet /\ [][NextSheet]_vars

\* build_report applied to each list of emails
NextReport == BuildReport

InitReport == Init /\ max_retries = 0

SpecReport == InitReport /\ [][NextReport]_vars

\* the classification caching loop of one run
NextCache ==
    \/ CacheLoopBegin
    \/ CacheSkip
    \/ CacheClassification
    \/ CacheLoopEnd

SpecCache == InitQuiet /\ [][NextCache]_vars

\* the runs that share the global OpenAI client, one after the other
NextClient ==
    \/ RunBegins
    \/ Classify
    \/ FetchEnds
    \/ ReportCompletion
    \/ ReportEnds

SpecClient == InitQuiet /\ [][NextClient]_vars

\* the store under the calls made on it for several runs, and get_run calls
NextGet ==
    \/ \E id \in StoredIds :
          \/ StoreCreateRun(id)
          \/ StoreCompleteRun(id)
          \/ StoreStopRun(id)
          \/ StoreAddStepLog(id)
          \/ GetRunBegin(id)
    \/ GetRunSteps
    \/ ResultRead

SpecGet == InitQuiet /\ [][NextGet]_vars

\* the runs table under the updates made to it, and list_runs calls
NextList ==
    \/ \E id \in StoredIds :
          \/ StoreCreateRun(id)
          \/ StoreCompleteRun(id)
          \/ StoreStopRun(id)
    \/ ListRunsBegin
    \/ ListGetRow
    \/ ListGetSteps
    \/ ResultRead

SpecList == InitQuiet /\ [][NextList]_vars

(* ------------------------------ properties ----------------------------- *)
\* the persisted StepLog rows of run r for step name n, in insertion order
LogsOf(r, n) == SelectSeq(step_logs, LAMBDA l : l.run_id = r /\ l.step_name = n)

Persisted(r) == r \in DOMAIN workflow_runs

Terminal == {"completed", "failed"}

\* execute_workflow has left: it returned the run, or it raised
Left(r) == pc[r] \in {"done", "raised"}

\* C1: pipeline abort. Once the fetch stage of a run has failed or returned no
\* item, write_rows and build_report are never called for that run, the run
\* has no write_to_sheets or generate_report StepLog, the run execute_workflow
\* ends with has status failed, and the persisted status is never completed.
C1_PipelineAbort ==
    \A r \in RunIds :
        outcome[r]["fetch_emails"] \in {"empty", "exhausted", "failed"} =>
            /\ invoked[r] \cap {"write_to_sheets", "generate_report"} = {}
            /\ LogsOf(r, "write_to_sheets") = <<>>
            /\ LogsOf(r, "generate_report") = <<>>
            /\ Left(r) => run[r].status = "failed"
            /\ Persisted(r) => workflow_runs[r].status # "completed"

\* C1 witness: a run whose fetch returned an empty result has returned, failed
\* with the no-items message, and its row says failed
C1_Witness ==
    \E r \in RunIds :
        /\ outcome[r]["fetch_emails"] = "empty"
        /\ pc[r] = "done"
        /\ run[r].status = "failed"
        /\ run[r].error_message = "No emails fetched"
        /\ Persisted(r)
        /\ workflow_runs[r].status = "failed"
        /\ ~stop_applied[r]

\* C2: pipeline resilience. A run whose fetch succeeded with at least one item
\* and whose write stage raised on every attempt ends with status completed.
C2_WriteFailureStillCompletes ==
    \A r \in RunIds :
        ( /\ outcome[r]["fetch_emails"] = "ok"
          /\ outcome[r]["write_to_sheets"] = "exhausted"
          /\ Left(r) )
        => run[r].status = "completed"

\* C3: retry then success. When the step operation raised on its first N
\* attempts and returned on attempt N+1 (0 <= N <= max_retries), the executor
\* returns (True, value, None) and exactly one StepLog of the step is
\* persisted, with status completed and retry_count N.
C3_RetryThenSuccess ==
    \A r \in RunIds :
        (hist[r].fin # "no" /\ hist[r].firstOk \in 0..max_retries) =>
            /\ hist[r].fin = "returned"
            /\ hist[r].ret = Result(TRUE, hist[r].okVal, None)
            /\ Len(LogsOf(r, step[r])) = 1
            /\ LogsOf(r, step[r])[1].status = "completed"
            /\ LogsOf(r, step[r])[1].retry_count = hist[r].firstOk

\* C4: retry exhaustion. With max_retries = R >= 0, when the step operation
\* raised on every attempt, exactly one StepLog of the step is persisted, with
\* status failed, retry_count R and the message of the last exception, and the
\* executor returns (False, None, that message).
C4_RetryExhaustion ==
    \A r \in RunIds :
        ( /\ hist[r].fin # "no"
          /\ max_retries >= 0
          /\ hist[r].calls > 0
          /\ hist[r].raises = hist[r].calls )
        =>  /\ hist[r].fin = "returned"
            /\ hist[r].ret = Result(FALSE, NoValue, hist[r].lastErr)
            /\ Len(LogsOf(r, step[r])) = 1
            /\ LogsOf(r, step[r])[1].status = "failed"
            /\ LogsOf(r, step[r])[1].retry_count = max_retries
            /\ LogsOf(r, step[r])[1].error_message = hist[r].lastErr

\* C5: every invocation of the retry executor that has ended added exactly
\* one StepLog to the persisted log of the run.
C5_ExactlyOneStepLog ==
    \A r \in RunIds :
        hist[r].fin # "no" => Len(LogsOf(r, step[r])) = 1

\* C6: the retry executor never raises, and what it returns is
\* (True, value, None) or (False, None, error message).
C6_ExecutorNeverRaises ==
    \A r \in RunIds :
        /\ hist[r].fin # "raised"
        /\ hist[r].fin = "returned" =>
              \/ hist[r].ret.success /\ hist[r].ret.error = None
              \/ /\ ~hist[r].ret.success
                 /\ hist[r].ret.value = NoValue
                 /\ hist[r].ret.error # None

\* C7: the persisted status of a run changes only from pending to running and
\* from running to completed or failed; a completed or failed status is
\* never changed again.
C7_StatusTransitions ==
    [][\A r \in DOMAIN workflow_runs :
          \/ workflow_runs'[r].status = workflow_runs[r].status
          \/ workflow_runs[r].status = "pending" /\ workflow_runs'[r].status = "running"
          \/ workflow_runs[r].status = "running" /\ workflow_runs'[r].status \in Terminal
      ]_vars

\* C8: every persisted run has one of the four statuses, and its completed_at
\* is set exactly when the status is completed or failed.
C8_CompletedAtIffTerminal ==
    \A r \in DOMAIN workflow_runs :
        /\ workflow_runs[r].status \in WorkflowStatus
        /\ workflow_runs[r].completed_at # None <=> workflow_runs[r].status \in Terminal

\* C8 witness: a row that a stop request rewrote and the engine then completed
C8_Witness ==
    \E r \in DOMAIN workflow_runs :
        /\ stop_applied[r]
        /\ pc[r] = "done"
        /\ workflow_runs[r].status = "completed"
        /\ workflow_runs[r].completed_at = "t_completed"

\* C9: a persisted run carries an error_message only when its status is failed.
C9_ErrorOnlyWhenFailed ==
    \A r \in DOMAIN workflow_runs :
        workflow_runs[r].error_message # None => workflow_runs[r].status = "failed"

\* C10: execute_workflow never raises, and when an exception was caught during
\* the run it returns the run with status failed and the exception text, and
\* both are persisted (no stop request having rewritten the row).
C10_NeverRaises ==
    \A r \in RunIds :
        /\ pc[r] # "raised"
        /\ (pc[r] = "done" /\ exc[r] # None /\ ~stop_applied[r]) =>
              /\ run[r].status = "failed"
              /\ run[r].error_message = exc[r]
              /\ Persisted(r)
              /\ workflow_runs[r].status = "failed"
              /\ workflow_runs[r].error_message = exc[r]

\* C11: once the fetch stage succeeded with at least one item, a run in which
\* nothing but stage 2 or stage 3 failed (the write step, build_report, or
\* save_report persisting the report file) ends completed with
\* emails_processed equal to the number of fetched items.
C11_LaterStagesNeverFailRun ==
    \A r \in RunIds :
        (outcome[r]["fetch_emails"] = "ok" /\ Left(r) /\ exc[r] \in {None, IoError}) =>
            /\ run[r].status = "completed"
            /\ run[r].emails_processed = emails[r]

\* C15: a failed create is fatal. A run whose create_run returned false (the
\* run was started and has no row) has no pipeline stage executed and no
\* StepLog persisted under its id.
C15_FailedCreateIsFatal ==
    \A r \in RunIds :
        (pc[r] # "idle" /\ ~Persisted(r)) =>
            /\ invoked[r] = {}
            /\ \A i \in 1..Len(step_logs) : step_logs[i].run_id # r

\* C18: persisted history is append-only. No step ever removes a run row;
\* every step keeps the existing step_logs rows unchanged and in place; and a
\* step that inserts a StepLog row inserts exactly one, at the end, and leaves
\* every run row unchanged.
C18_AppendOnly ==
    [][ /\ DOMAIN workflow_runs \subseteq DOMAIN workflow_runs'
        /\ Len(step_logs') >= Len(step_logs)
        /\ SubSeq(step_logs', 1, Len(step_logs)) = step_logs
        /\ (step_logs' # step_logs =>
               /\ Len(step_logs') = Len(step_logs) + 1
               /\ workflow_runs' = workflow_runs) ]_vars

\* a run with a row, updated by the engine and by a stop, and with three
\* StepLog rows inserted one after the other
C18_Witness ==
    \E r \in RunIds :
        /\ Persisted(r)
        /\ stop_applied[r]
        /\ workflow_runs[r].status = "completed"
        /\ Len(step_logs) = 3

\* execute_workflow is running for r: started, and neither returned nor raised
InFlight(r) == pc[r] # "idle" /\ ~Left(r)

\* C19: stop does not interrupt in-flight work. A stop request changes nothing
\* of the engine (its position, step, attempt, in-memory run, results) and no
\* StepLog row, and of the run row it changes only status, error_message and
\* completed_at; and a run that is in flight always has its next engine step
\* enabled, whether or not a stop was applied to it.
C19_StopDoesNotInterrupt ==
    /\ [][ \A r \in RunIds : StopRun(r) =>
              /\ UNCHANGED <<pc, step, attempt, run, result, emails, exc, step_logs>>
              /\ DOMAIN workflow_runs' = DOMAIN workflow_runs
              /\ \A q \in DOMAIN workflow_runs :
                     \A f \in DOMAIN workflow_runs[q] :
                         workflow_runs'[q][f] # workflow_runs[q][f] =>
                             /\ q = r
                             /\ f \in {"status", "error_message", "completed_at"} ]_vars
    /\ [](\A r \in RunIds : InFlight(r) => ENABLED EngineStep(r))

\* a stop was applied while the run was in flight, and the engine went on: it
\* ran the three stages, persisted their StepLogs and made its own terminal
\* update after the stop (status completed with the stop's error_message)
C19_Witness ==
    \E r \in RunIds :
        /\ stop_applied[r]
        /\ pc[r] = "done"
        /\ Persisted(r)
        /\ workflow_runs[r].status = "completed"
        /\ workflow_runs[r].error_message = "Manually stopped by user"
        /\ workflow_runs[r].report_path # None
        /\ Len(step_logs) = 3

\* C20: the report stage is conditional on the flag. For a run started with
\* generate_report false, build_report is never invoked, no generate_report
\* StepLog is persisted, report_path stays unset in the run and in its row,
\* and, the fetch stage having succeeded, the run ends completed.
C20_ReportStageConditional ==
    \A r \in RunIds :
        (pc[r] # "idle" /\ ~generate_report[r]) =>
            /\ "generate_report" \notin invoked[r]
            /\ LogsOf(r, "generate_report") = <<>>
            /\ run[r].report_path = None
            /\ (Persisted(r) => workflow_runs[r].report_path = None)
            /\ (outcome[r]["fetch_emails"] = "ok" /\ Left(r) =>
                    run[r].status = "completed")

\* C14: transient failures are retried. When the external call of the fetch
\* or write collaborator failed with a network/API error on every attempt of
\* an executor invocation that has ended, the step was attempted
\* max_retries + 1 times, a StepLog with status failed is persisted for it
\* and none with status completed.
C14_TransientFailuresRetried ==
    \A r \in RunIds :
        ( /\ step[r] \in {"fetch_emails", "write_to_sheets"}
          /\ hist[r].fin # "no"
          /\ hist[r].calls > 0
          /\ hist[r].apiErrors = hist[r].calls ) =>
            /\ hist[r].calls = max_retries + 1
            /\ LogsOf(r, step[r]) # <<>>
            /\ \A i \in 1..Len(LogsOf(r, step[r])) :
                   LogsOf(r, step[r])[i].status = "failed"

\* C12: write idempotence across calls. For a write_rows call made after
\* another one had ended, the later call appends no row for an id the earlier
\* call wrote, and the count it returns includes none of those ids (it is at
\* most the number of its rows the earlier call did not write).
C12_WriteIdempotentAcrossCalls ==
    \A w1 \in Writers, w2 \in Writers :
        (w1 \in writers[w2].after /\ writers[w2].pc = "done") =>
            /\ Ids(writers[w2].appended) \cap Ids(writers[w1].appended) = {}
            /\ writers[w2].updated_rows <=
                   Cardinality(Ids(writers[w2].rows) \ Ids(writers[w1].appended))

\* C13: concurrent writes are safe. Under every interleaving of the write
\* stages of two runs in which every read of the existing ids succeeded, each
\* email id is in column A of the sheet at most once.
C13_ConcurrentWritesSafe ==
    (\A w \in Writers : ~writers[w].read_failed) =>
        \A i \in 1..Len(sheet), j \in 1..Len(sheet) :
            i # j => sheet[i] # sheet[j]

\* C16: a list_runs(limit, status) call with a limit of zero or more, none of
\* whose queries failed, selects exactly the limit most recently started runs
\* of the given status (every run when no status is given): a run of that
\* status that is not selected is older than each of the limit runs selected.
\* It returns the selected runs, at most limit of them, most recently started
\* first, each with the given status when a status is given.
C16_ListRuns ==
    /\ [][ (ListRunsBegin /\ list_call'.limit >= 0 /\ ~list_call'.failed) =>
              LET sel == list_call'.selected
                  selected == {sel[i] : i \in 1..Len(sel)}
                  matching == {id \in DOMAIN workflow_runs :
                                  list_call'.status = None
                                  \/ workflow_runs[id].status = list_call'.status}
              IN  /\ selected \subseteq matching
                  /\ \A id \in matching \ selected :
                         /\ Len(sel) = list_call'.limit
                         /\ \A q \in selected :
                                workflow_runs[q].started_at > workflow_runs[id].started_at
         ]_vars
    /\ []( (list_call.pc = "done" /\ list_call.limit >= 0 /\ ~list_call.failed) =>
              LET runs == list_call.runs
              IN  /\ Len(runs) <= list_call.limit
                  /\ Len(runs) = Len(list_call.selected)
                  /\ \A i \in 1..Len(runs) : runs[i].run_id = list_call.selected[i]
                  /\ \A i \in 1..Len(runs), j \in 1..Len(runs) :
                         i < j => runs[i].started_at > runs[j].started_at
                  /\ list_call.status # None =>
                         \A i \in 1..Len(runs) : runs[i].status = list_call.status )

\* the step_logs rows of run id, in insertion order, as the k-th row of the
\* run counted from the start of the table
KthRowOf(id, k) ==
    LET idx == {i \in 1..Len(step_logs) : step_logs[i].run_id = id}
    IN  step_logs[CHOOSE i \in idx : Cardinality({j \in idx : j <= i}) = k]

\* C17 as stated: a get_run call on an id that had a row when the call began
\* returns the current fields of the row with all StepLogs of that run and
\* only those, in insertion order; on an id without a row it returns None.
C17_GetRunAsStated ==
    get_call.pc \in {"done", "raised"} =>
        IF get_call.existed
        THEN /\ get_call.pc = "done"
             /\ get_call.found
             /\ get_call.run.status = workflow_runs[get_call.run_id].status
             /\ get_call.run.completed_at = workflow_runs[get_call.run_id].completed_at
             /\ get_call.run.error_message = workflow_runs[get_call.run_id].error_message
             /\ Len(get_call.run.steps) =
                    Cardinality({i \in 1..Len(step_logs) :
                                    step_logs[i].run_id = get_call.run_id})
        ELSE get_call.pc = "done" /\ ~get_call.found

\* C17, amended: get_run returns None for an id that has no row when it
\* selects the row, and also when one of its two queries fails, and it raises
\* when the connection cannot be opened; a call that returns a run returns
\* the fields the row had when it was selected, with all StepLogs of that run
\* persisted when the step logs are selected, only those, in insertion order.
C17_GetRun ==
    [][ /\ \A id \in StoredIds : GetRunBegin(id) =>
              /\ ~get_call'.found
              /\ id \notin DOMAIN workflow_runs => get_call'.pc \in {"done", "raised"}
              /\ get_call'.pc = "steps" =>
                     /\ id \in DOMAIN workflow_runs
                     /\ get_call'.row = workflow_runs[id]
        /\ GetRunSteps =>
              /\ get_call'.pc = "done"
              /\ get_call'.found =>
                   LET id == get_call.run_id
                       got == get_call'.run
                   IN  /\ got.run_id = id
                       /\ \A f \in DOMAIN get_call.row : got[f] = get_call.row[f]
                       /\ Len(got.steps) =
                              Cardinality({i \in 1..Len(step_logs) :
                                              step_logs[i].run_id = id})
                       /\ \A k \in 1..Len(got.steps) :
                              /\ KthRowOf(id, k).run_id = id
                              /\ \A f \in DOMAIN got.steps[k] :
                                     got.steps[k][f] = KthRowOf(id, k)[f] ]_vars

\* get_run returned a completed run with its two StepLogs, in order, a
\* StepLog of another run lying between them in the table
C17_Witness ==
    /\ get_call.pc = "done"
    /\ get_call.found
    /\ get_call.run.status = "completed"
    /\ Len(get_call.run.steps) = 2
    /\ get_call.run.steps[1].step_name = "fetch_emails"
    /\ get_call.run.steps[2].step_name = "write_to_sheets"
    /\ Len(step_logs) = 3
    /\ step_logs[2].run_id # get_call.run_id

\* C21: soft report failure. A run whose fetch succeeded with at least one
\* item and whose build_report raised on every attempt ends with status
\* completed, has no report_path, and has a generate_report StepLog with
\* status failed.
C21_SoftReportFailure ==
    \A r \in RunIds :
        ( /\ outcome[r]["fetch_emails"] = "ok"
          /\ outcome[r]["generate_report"] = "exhausted"
          /\ Left(r) ) =>
            /\ run[r].status = "completed"
            /\ run[r].report_path = None
            /\ \E i \in 1..Len(LogsOf(r, "generate_report")) :
                   LogsOf(r, "generate_report")[i].status = "failed"

\* the fetch stage of run r failed or returned no item
FetchStageFailed(r) ==
    outcome[r]["fetch_emails"] \in {"empty", "exhausted", "failed"}

\* C22 as stated: a persisted run has status failed only if its fetch stage
\* failed or returned no item, or an exception was caught during its
\* execution.
C22_FailedOnlyByFetchOrException ==
    \A r \in RunIds :
        (Persisted(r) /\ workflow_runs[r].status = "failed") =>
            FetchStageFailed(r) \/ exc[r] # None

\* C22, amended: a persisted run has status failed only if its fetch stage
\* failed or returned no item, or an exception was caught during its
\* execution, or a stop request has rewritten its row.
C22_FailedOnlyByFetchExceptionOrStop ==
    \A r \in RunIds :
        (Persisted(r) /\ workflow_runs[r].status = "failed") =>
            FetchStageFailed(r) \/ exc[r] # None \/ stop_applied[r]

\* a run that fetched, met no exception and was stopped while in flight: its
\* row says failed
C22_Witness ==
    \E r \in RunIds :
        /\ Persisted(r)
        /\ workflow_runs[r].status = "failed"
        /\ outcome[r]["fetch_emails"] = "ok"
        /\ exc[r] = None
        /\ stop_applied[r]
        /\ InFlight(r)

\* C30: referential integrity of step logs. Every persisted step_logs row
\* carries a run_id for which workflow_runs has a row.
C30_StepLogsReferToRuns ==
    \A i \in 1..Len(step_logs) : step_logs[i].run_id \in DOMAIN workflow_runs

\* the step names of the persisted StepLogs of run r, in insertion order
StepNamesOf(r) ==
    LET logs == SelectSeq(step_logs, LAMBDA l : l.run_id = r)
    IN  [i \in 1..Len(logs) |-> logs[i].step_name]

\* C26: stage ordering. The run is persisted with status running before the
\* fetch stage starts; the persisted StepLogs of a run are, in order, those
\* of the first stages of (fetch_emails, write_to_sheets, generate_report),
\* one per step name; a stage starts only after the StepLog of the previous
\* stage was appended; and the terminal update comes last, after the stages.
C26_StageOrdering ==
    \A r \in RunIds :
        /\ invoked[r] # {} => Persisted(r)
        /\ Len(StepNamesOf(r)) <= Len(StepNames)
        /\ StepNamesOf(r) = SubSeq(StepNames, 1, Len(StepNamesOf(r)))
        /\ "write_to_sheets" \in invoked[r] => LogsOf(r, "fetch_emails") # <<>>
        /\ "generate_report" \in invoked[r] => LogsOf(r, "write_to_sheets") # <<>>
        /\ run[r].status = "completed" => "write_to_sheets" \in invoked[r]

\* C27: a fetch that returns an empty sequence without raising is not
\* retried: when the first call of fetch_emails returned no item, the
\* operation was invoked exactly once, one fetch_emails StepLog is persisted,
\* with status completed and retry_count 0, and the run ends failed with the
\* error message "No emails fetched".
C27_EmptyFetchNotRetried ==
    \A r \in RunIds :
        ( /\ step[r] = "fetch_emails"
          /\ hist[r].fin # "no"
          /\ hist[r].firstOk = 0
          /\ hist[r].okVal = 0 ) =>
            /\ hist[r].calls = 1
            /\ Len(LogsOf(r, "fetch_emails")) = 1
            /\ LogsOf(r, "fetch_emails")[1].status = "completed"
            /\ LogsOf(r, "fetch_emails")[1].retry_count = 0
            /\ Left(r) =>
                   /\ run[r].status = "failed"
                   /\ run[r].error_message = "No emails fetched"

ScoredIn(es, b) ==
    {i \in 1..Len(es) :
        /\ es[i] # NoSentiment
        /\ CASE b = "Important" -> es[i] >= 70
             [] b = "Needed Review" -> es[i] >= 40 /\ es[i] < 70
             [] b = "Take Your Time" -> es[i] < 40}

Scored(es) == {i \in 1..Len(es) : es[i] # NoSentiment}

StatsSum(stats) ==
    stats["Important"] + stats["Needed Review"] + stats["Take Your Time"]

\* three scored items, one at 0.5 and two below 0.4
ScenarioEmails(es) ==
    /\ Len(es) = 3
    /\ \A i \in 1..3 : es[i] # NoSentiment
    /\ Cardinality({i \in 1..3 : es[i] = 50}) = 1
    /\ Cardinality({i \in 1..3 : es[i] < 40}) = 2

\* C24 as stated: build_report counts each item into exactly one of the three
\* buckets by its urgency score, so the three counts sum to the item count;
\* three items with one at 0.5 and two below 0.4 give high 0, medium 1, low 2.
C24_BucketsSumToItemCount ==
    report_call.done =>
        /\ \A b \in Buckets :
               report_call.urgency_stats[b] = Cardinality(ScoredIn(report_call.emails, b))
        /\ StatsSum(report_call.urgency_stats) = Len(report_call.emails)
        /\ ScenarioEmails(report_call.emails) =>
               report_call.urgency_stats =
                   [b \in Buckets |-> CASE b = "Important" -> 0
                                        [] b = "Needed Review" -> 1
                                        [] b = "Take Your Time" -> 2]

\* C24, amended: build_report counts each item that carries a sentiment
\* result into exactly one of the three buckets by its urgency score and
\* counts no other item, so the three counts sum to the number of items with a
\* sentiment result; three such items with one at 0.5 and two below 0.4 give
\* high 0, medium 1, low 2.
C24_BucketsSumToScoredCount ==
    report_call.done =>
        /\ \A b \in Buckets :
               report_call.urgency_stats[b] = Cardinality(ScoredIn(report_call.emails, b))
        /\ StatsSum(report_call.urgency_stats) = Cardinality(Scored(report_call.emails))
        /\ ScenarioEmails(report_call.emails) =>
               report_call.urgency_stats =
                   [b \in Buckets |-> CASE b = "Important" -> 0
                                        [] b = "Needed Review" -> 1
                                        [] b = "Take Your Time" -> 2]

C24_Witness ==
    /\ report_call.done
    /\ ScenarioEmails(report_call.emails)
    /\ report_call.urgency_stats["Needed Review"] = 1
    /\ report_call.urgency_stats["Take Your Time"] = 2

\* the items of the loop that carry a classification and a sentiment result
Classified(c) == {k \in 1..Len(c.emails) : c.emails[k] = "classified"}

\* C29: classification caching is non-fatal. A cache_classification call
\* that raises leaves the run's status as it was and the loop goes on to the
\* next item: at every point of the loop each classified item before the
\* current one was either cached or failed on its own, and when the loop is
\* over, whatever calls failed, every classified item was attempted and the
\* write stage starts (after which the stages run as without the cache).
C29_CachingNonFatal ==
    /\ cache_loop.pc \in {"idle", "loop", "write"}
    /\ cache_loop.status = "running"
    /\ cache_loop.cached \cup cache_loop.failed =
           {k \in Classified(cache_loop) : k < cache_loop.i}
    /\ cache_loop.cached \cap cache_loop.failed = {}
    /\ cache_loop.pc = "write" => cache_loop.i = Len(cache_loop.emails) + 1

\* the call failed for the first item and a later item was cached, and the
\* write stage was reached
C29_Witness ==
    /\ cache_loop.pc = "write"
    /\ 1 \in cache_loop.failed
    /\ \E k \in cache_loop.cached : k > 1

\* a store operation made for run id: its creation, its terminal update, the
\* update of a stop request for it, the insertion of one of its StepLogs
StoreOp(id) ==
    \/ StoreCreateRun(id)
    \/ StoreCompleteRun(id)
    \/ StoreStopRun(id)
    \/ StoreAddStepLog(id)

\* C25: concurrent runs are independent. Under every interleaving of the
\* store operations of several runs, an operation made for one run leaves
\* every other run's row (its presence and each of its columns) and every
\* other run's StepLog sequence as they were, so each run's record and logs
\* are those its own operations produce.
C25_RunsIndependent ==
    [][\A id \in StoredIds :
          StoreOp(id) =>
              \A j \in StoredIds \ {id} :
                  /\ (j \in DOMAIN workflow_runs') = (j \in DOMAIN workflow_runs)
                  /\ j \in DOMAIN workflow_runs => workflow_runs'[j] = workflow_runs[j]
                  /\ StepRows(step_logs', j) = StepRows(step_logs, j)]_vars

\* the operations of two runs interleaved: r1's logs around one of r2, r1
\* completed while r2 is running
C25_Witness ==
    /\ {"r1", "r2"} \subseteq DOMAIN workflow_runs
    /\ workflow_runs["r1"].status = "completed"
    /\ workflow_runs["r2"].status = "running"
    /\ \E i, j, k \in 1..Len(step_logs) :
           /\ i < j /\ j < k
           /\ step_logs[i].run_id = "r1"
           /\ step_logs[j].run_id = "r2"
           /\ step_logs[k].run_id = "r1"

\* C23: termination. Every started run eventually has a persisted terminal
\* status (completed or failed), given that each collaborator call and each
\* store call returns or raises.
C23_RunsTerminate ==
    \A r \in RunIds :
        (pc[r] # "idle") ~>
            (Persisted(r) /\ workflow_runs[r].status \in Terminal)

\* C34: attempt bound. Within one invocation of the retry executor the step
\* operation is invoked at most max_retries + 1 times, exactly max_retries + 1
\* times once the executor has left and every invocation raised, and not
\* again after the first invocation that returned.
C34_AttemptBound ==
    \A r \in RunIds :
        /\ hist[r].calls <= max_retries + 1
        /\ (hist[r].fin # "no" /\ hist[r].raises = hist[r].calls) =>
               hist[r].calls = max_retries + 1
        /\ hist[r].firstOk # NoValue => hist[r].calls = hist[r].firstOk + 1

\* WorkflowRun.steps of the run execute_workflow holds and returns: the empty
\* list of its construction (models.py:129, engine.py:112-116); no statement
\* of execute_workflow or of the retry executor assigns it or appends to it,
\* the StepLogs go to the store only (engine.py:73, 89)
RunSteps(r) == <<>>

\* the steps of the WorkflowRun that get_run builds for run r from the table
StoredSteps(r) ==
    [i \in 1..Len(StepRows(step_logs, r)) |-> ToStepLog(StepRows(step_logs, r)[i])]

\* C31: the WorkflowRun execute_workflow returns carries in steps one StepLog
\* per step executed in the run, and that sequence equals the steps of the
\* WorkflowRun get_run returns for the run.
C31_ReturnedStepsMirrorStore ==
    \A r \in RunIds :
        pc[r] = "done" =>
            /\ Len(RunSteps(r)) = Cardinality(invoked[r])
            /\ RunSteps(r) = StoredSteps(r)

RunFields == {"status", "completed_at", "error_message", "emails_processed", "report_path"}

\* C35: at the return of execute_workflow, when no stop request was applied
\* to the run, the run is persisted and its row agrees with the returned
\* WorkflowRun on status, completed_at, error_message, emails_processed and
\* report_path, on every path and for every outcome of the store's update.
C35_PersistedAgreesWithReturned ==
    \A r \in RunIds :
        (pc[r] = "done" /\ ~stop_applied[r]) =>
            /\ Persisted(r)
            /\ \A f \in RunFields : workflow_runs[r][f] = run[r][f]

\* C32: OpenAI rate limit. Between two resets of the call counter the wrapper
\* sends at most max_calls requests to the API, whatever their outcomes, and
\* a generate_completion that ends with 'Rate limit exceeded' happens only
\* with the counter at the limit.
C32_RateLimit ==
    /\ openai_client.sent <= MaxCalls
    /\ openai_client.last = "Rate limit exceeded" => openai_client.call_count >= MaxCalls

\* C33: the counter is reset for each new run. For any sequence of runs that
\* share the global client, with either value of generate_report, the counter
\* is 0 when a run makes its first AI call.
C33_CounterResetPerRun ==
    openai_client.first_count \in {NoValue, 0}

\* C36: every run a list_runs(limit, status = S) call returns has status S in
\* the returned record, under every interleaving of the call with the
\* terminal updates and the stop requests of the listed runs.
C36_ListedRunsHaveStatus ==
    (list_call.pc = "done" /\ list_call.status # None) =>
        \A i \in 1..Len(list_call.runs) :
            list_call.runs[i].status = list_call.status

\* the row of run r after a stop: status failed, the stop message, completed_at
\* set, and emails_processed and report_path as they were
StoppedRow(r) ==
    /\ workflow_runs'[r].status = "failed"
    /\ workflow_runs'[r].error_message = "Manually stopped by user"
    /\ workflow_runs'[r].completed_at # None
    /\ workflow_runs'[r].emails_processed = workflow_runs[r].emails_processed
    /\ workflow_runs'[r].report_path = workflow_runs[r].report_path

\* C37 as stated: a stop request on an existing run, whatever its status,
\* leaves its row failed with the stop message and completed_at set and
\* changes no other field and no StepLog; on an id with no row it reports
\* not-found and changes no persisted state.
C37_StopAsStated ==
    [][\A r \in RunIds :
          StopRun(r) =>
              /\ step_logs' = step_logs
              /\ DOMAIN workflow_runs' = DOMAIN workflow_runs
              /\ IF Persisted(r)
                 THEN StoppedRow(r)
                 ELSE stop_response'[r] = "404" /\ workflow_runs' = workflow_runs]_vars

\* C37, amended: a stop request never changes a StepLog or the set of rows;
\* one answered with success was made on an existing run, whatever its
\* status, and leaves its row failed with the stop message and completed_at
\* set, its other fields unchanged; one answered otherwise changes no
\* persisted state; and one on an id with no row is never answered with
\* success: it reports not-found, or an error when the store cannot be opened.
C37_StopFrame ==
    [][\A r \in RunIds :
          StopRun(r) =>
              /\ step_logs' = step_logs
              /\ DOMAIN workflow_runs' = DOMAIN workflow_runs
              /\ stop_response'[r] \in {"200", "404", "500"}
              /\ stop_response'[r] = "200" => Persisted(r) /\ StoppedRow(r)
              /\ stop_response'[r] # "200" => workflow_runs' = workflow_runs
              /\ ~Persisted(r) => stop_response'[r] \in {"404", "500"}]_vars

\* a stop request answered with success on a run the engine had completed
C37_Witness ==
    \E r \in RunIds :
        /\ Left(r)
        /\ run[r].status = "completed"
        /\ Persisted(r)
        /\ stop_response[r] = "200"
        /\ workflow_runs[r].status = "failed"
        /\ workflow_runs[r].error_message = "Manually stopped by user"
        /\ workflow_runs[r].emails_processed > 0

====
